---- MODULE Spec2Model ----
(***************************************************************************)
(* CircularBuffer<T, GrowPolicy, CheckBoundariesPolicy>                    *)
(* (include/CircularBuffer.hpp): a FIFO ring over a raw block of T, with a *)
(* growth policy and a boundary-checking policy chosen at compile time.    *)
(*                                                                         *)
(* size_t is modelled as an unsigned integer of SizeBits bits; a slot of   *)
(* the block holds a value of T or is indeterminate (never constructed, or *)
(* destroyed).  Reading an indeterminate slot yields any value of T.       *)
(***************************************************************************)
EXTENDS Integers, Sequences, FiniteSets

\* ---------------------------------------------------------------- bounds
SizeBits == 4
MaxSize == 3
MaxValue == 3

SizeMod == 2 ^ SizeBits
PtrdiffMax == 2 ^ (SizeBits - 1) - 1
Values == 1 .. MaxValue

\* An indeterminate slot (allocated, not holding a constructed T).
Uninit == 0
\* No value returned (the call threw, or returns void).
NoValue == -1

GrowPolicies == {"NoGrow", "GrowSingle", "GrowDouble"}
CheckPolicies == {"NoBoundaryCheck", "CheckBoundaryThrow"}

VARIABLES
    growPolicy,      \* template parameter GrowPolicy
    checkPolicy,     \* template parameter CheckBoundariesPolicy
    constructed,     \* "no" before the constructor ran, "yes" after it returned, "failed" if it threw, "destroyed" after the destructor
    _size,
    _count,
    _nextPushPos,
    _nextPopPos,
    _elements,       \* the block: a function from its slots 0 .. n-1 to Values \cup {Uninit}
    op,              \* the last member function called
    ret,             \* what the last call returned (NoValue if nothing)
    exc,             \* what the last call threw ("none" if it returned)
    \* history variables: they record what has happened and never affect the
    \* buffer's members; misuse, garbage and resizes also decide where the model
    \* stops following a run (see Defined)
    queue,           \* while shape is "push" or "pop": the values pushed and not yet popped, oldest first
    misuse,          \* under NoBoundaryCheck, a push on a full buffer that did not grow or a pop on an empty one has happened
    garbage,         \* a pop has read an indeterminate slot
    resizes,         \* explicit resize calls so far: "none", "grown", "shrunk"
    shape,           \* form of the call sequence since construction: "push", "pop", "mixed"
    scn,             \* position in the scripted scenario, -1 when the calls left the script
    rt,              \* the value pushed, when the last call was a push onto an empty buffer; else NoValue
    firstResizeFrom, \* _size before the last call, when that call was the first resize to grow the block; else 0
    pops,            \* how many times the last call ran pop(): 1 for a pop that passed its check, the loop count for clear and the destructor
    fifo,            \* until an explicit resize changes the block or misuse happens: the values pushed and not yet popped, oldest first
    autoGrown,       \* a push has grown the block, and no explicit resize has changed it
    releasedLive,    \* how many slots of the block the last call released still held a constructed element
    partialAlloc     \* whether get_temporary_buffer may grant fewer slots than requested (fixed from the start)

bufVars == <<_size, _count, _nextPushPos, _nextPopPos, _elements>>
vars == <<growPolicy, checkPolicy, constructed, _size, _count, _nextPushPos,
          _nextPopPos, _elements, op, ret, exc, queue, misuse, garbage, resizes,
          shape, scn, rt, firstResizeFrom, pops, fifo, autoGrown, releasedLive,
          partialAlloc>>

\* ------------------------------------------------------------- policies
\* (variant: the empty check compares with < instead of ==, never true of a size_t)
CheckEmptyNever(policy, count) ==
    policy = "CheckBoundaryThrow" /\ count < 0

\* CheckBoundaryThrow::checkEmpty / NoBoundaryCheck::checkEmpty: TRUE when it throws.
CheckEmpty(policy, count) ==
    policy = "CheckBoundaryThrow" /\ count = 0

\* (variant: the full check compares with > instead of ==)
CheckFullOffByOne(policy, count, size) ==
    policy = "CheckBoundaryThrow" /\ count > size

\* CheckBoundaryThrow::checkFull / NoBoundaryCheck::checkFull: TRUE when it throws.
CheckFull(policy, count, size) ==
    policy = "CheckBoundaryThrow" /\ count = size

\* GrowPolicy::newSize
NewSize(policy, currentSize) ==
    CASE policy = "NoGrow"     -> currentSize
      [] policy = "GrowSingle" -> (currentSize + 1) % SizeMod
      [] policy = "GrowDouble" -> (currentSize * 2) % SizeMod

\* ------------------------------------------------------------ allocation
\* std::get_temporary_buffer<T>(n): the lengths it may report.  It takes a
\* ptrdiff_t, so n = 0 and n > PTRDIFF_MAX (negative) yield no block; a heap of
\* MaxSize slots cannot serve more; any request may fail, and an allocator
\* that grants partial blocks may report any length up to n.
GetTemporaryBuffer(n) ==
    IF n = 0 \/ n > PtrdiffMax \/ n > MaxSize THEN {0}
    ELSE IF partialAlloc THEN 0 .. n
    ELSE {0, n}

\* The number of slots of a block.
Capacity(elems) == Cardinality(DOMAIN elems)

\* The first got slots of what was written through the pointer to a block of
\* got slots: writes past its end do not land in it.
Block(written, got) == [j \in 0 .. got - 1 |-> written[j]]

\* How many slots of a block hold a constructed element.
Live(elems) == Cardinality({i \in DOMAIN elems : elems[i] # Uninit})

\* ---------------------------------------------------------------- queries
size == _size
count == _count
isEmpty == _count = 0
isFull == _count = _size

\* advance(currentPos): if(++currentPos == _size) currentPos = 0;
Advance(pos, sz) ==
    IF (pos + 1) % SizeMod = sz THEN 0 ELSE (pos + 1) % SizeMod

\* _elements[index] read through the raw pointer: outside the block, anything.
ReadSlot(elems, sz, index) ==
    IF index < sz /\ index \in DOMAIN elems THEN elems[index] ELSE Uninit

\* (variant: push advances _nextPushPos before it constructs the element)
ConstructAtNext(elems, sz, pos, elem) ==
    IF Advance(pos, sz) < sz /\ Advance(pos, sz) \in DOMAIN elems
    THEN [elems EXCEPT ![Advance(pos, sz)] = elem] ELSE elems

\* new (&_elements[pos]) T(elem): a write outside the block does not land in it.
ConstructAt(elems, sz, pos, elem) ==
    IF pos < sz /\ pos \in DOMAIN elems THEN [elems EXCEPT ![pos] = elem] ELSE elems

\* _elements[pos].~T()
DestroyAt(elems, sz, pos) ==
    IF pos < sz /\ pos \in DOMAIN elems THEN [elems EXCEPT ![pos] = Uninit] ELSE elems

\* ---------------------------------------------------------------- resize
\* size_t offset = newSize - _size;
Offset(newSize, sz) == (newSize - sz) % SizeMod

\* (variant: resize leaves _nextPopPos where it was)
MigratedPopPosUnmoved(popPos, offset) == popPos

\* _nextPopPos += offset;
MigratedPopPos(popPos, offset) == (popPos + offset) % SizeMod

\* (variant: one loop copies every slot of the old block to the same index)
MigrateUnshifted(elems, sz, pushPos, newSize) ==
    [j \in 0 .. newSize - 1 |-> IF j < sz THEN ReadSlot(elems, sz, j) ELSE Uninit]

\* The new block after the two copy loops of resize: slots [0, nextPushPos)
\* keep their index, slots [nextPushPos, _size) move up by offset (the second
\* loop runs last, so it wins where both write); the rest stays indeterminate.
Migrate(elems, sz, pushPos, newSize) ==
    LET offset == Offset(newSize, sz)
        Shifted(j) == {i \in pushPos .. sz - 1 : (i + offset) % SizeMod = j}
    IN  [j \in 0 .. newSize - 1 |->
            IF Shifted(j) # {}
            THEN ReadSlot(elems, sz, CHOOSE i \in Shifted(j) : TRUE)
            ELSE IF j < pushPos THEN ReadSlot(elems, sz, j) ELSE Uninit]

\* The indices of the new block that the two copy loops of resize write.
MigrationWrites(sz, pushPos, newSize) ==
    {i \in 0 .. sz - 1 : i < pushPos}
        \cup {(i + Offset(newSize, sz)) % SizeMod : i \in pushPos .. sz - 1}

\* The indices of the old block that the two copy loops of resize read.
MigrationReads(sz, pushPos) ==
    {i \in 0 .. SizeMod - 1 : i < pushPos} \cup (pushPos .. sz - 1)

\* ------------------------------------------------------ history bookkeeping
\* The scripted calls: push(1), push(2), push(3), pop(), pop(), pop(), pop().
Script == <<"push1", "push2", "push3", "pop", "pop", "pop", "pop">>
ScnNext(call) ==
    IF scn >= 0 /\ scn < Len(Script) /\ Script[scn + 1] = call THEN scn + 1 ELSE -1

\* The calls the model follows are those made on a constructed buffer whose
\* behaviour is still defined: the state right after an unchecked overflow or
\* underflow, after a pop that read an indeterminate slot, or after a
\* shrinking resize, is recorded and taken no further than clear() and the
\* destructor.
Defined == constructed = "yes" /\ ~misuse /\ ~garbage /\ resizes # "shrunk"

\* ------------------------------------------------------------ constructor
\* CircularBuffer(size_t size): get_temporary_buffer<T>(_size), bad_alloc if
\* it reports no block.
Construct(sz) ==
    /\ constructed = "no"
    /\ \E got \in GetTemporaryBuffer(sz) :
        /\ constructed' = IF got = 0 THEN "failed" ELSE "yes"
        /\ exc' = IF got = 0 THEN "bad_alloc" ELSE "none"
        /\ _size' = sz
        /\ _count' = 0
        /\ _nextPushPos' = 0
        /\ _nextPopPos' = 0
        /\ _elements' = [i \in 0 .. got - 1 |-> Uninit]
        /\ scn' = IF got # 0 /\ sz = 2 /\ growPolicy = "GrowDouble"
                      /\ checkPolicy = "CheckBoundaryThrow"
                  THEN 0 ELSE -1
    /\ op' = "construct"
    /\ ret' = NoValue
    /\ queue' = <<>>
    /\ misuse' = FALSE
    /\ garbage' = FALSE
    /\ resizes' = "none"
    /\ shape' = "push"
    /\ rt' = NoValue
    /\ firstResizeFrom' = 0
    /\ pops' = 0
    /\ fifo' = <<>>
    /\ autoGrown' = FALSE
    /\ releasedLive' = 0
    /\ UNCHANGED <<growPolicy, checkPolicy, partialAlloc>>

\* ------------------------------------------------------------------ resize
\* (variant: resize stores _size = newSize before it asks for the block)
BadAllocAfterSize(newSize) ==
    /\ exc' = "bad_alloc"
    /\ _size' = newSize
    /\ UNCHANGED <<_count, _nextPushPos, _nextPopPos, _elements>>

\* resize when get_temporary_buffer reports no block: throw std::bad_alloc(),
\* before any member has been written.
BadAlloc(newSize) ==
    /\ exc' = "bad_alloc"
    /\ UNCHANGED bufVars

\* resize(newSize), called by the user.
Resize(newSize) ==
    /\ Defined
    /\ op' = "resize"
    /\ ret' = NoValue
    /\ shape' = "mixed"
    /\ scn' = -1
    /\ queue' = <<>>
    /\ rt' = NoValue
    /\ pops' = 0
    /\ UNCHANGED <<growPolicy, checkPolicy, constructed, misuse, garbage, partialAlloc>>
    /\ IF _size = newSize
       THEN /\ exc' = "none"
            /\ releasedLive' = 0
            /\ UNCHANGED <<bufVars, resizes>>
       ELSE \E got \in GetTemporaryBuffer(newSize) :
            IF got = 0
            THEN /\ BadAlloc(newSize)
                 /\ releasedLive' = 0
                 /\ UNCHANGED resizes
            ELSE /\ exc' = "none"
                 /\ _elements' = Block(Migrate(_elements, _size, _nextPushPos, newSize), got)
                 /\ releasedLive' = Live(_elements)
                 /\ _nextPopPos' = MigratedPopPos(_nextPopPos, Offset(newSize, _size))
                 /\ _size' = newSize
                 /\ UNCHANGED <<_count, _nextPushPos>>
                 /\ resizes' = IF newSize < _size \/ resizes = "shrunk"
                               THEN "shrunk" ELSE "grown"
    /\ firstResizeFrom' = IF exc' = "none" /\ resizes = "none" /\ _size' > _size
                          THEN _size ELSE 0
    /\ fifo' = IF resizes' = "none" THEN fifo ELSE <<>>
    /\ autoGrown' = (autoGrown /\ resizes' = "none")

\* -------------------------------------------------------------------- push
\* push(elem): checkFull, then resize(GrowPolicy::newSize(_size)) if full,
\* then ++_count, construct at _nextPushPos, advance(_nextPushPos).
PushStore(elems, sz, elem) ==
    /\ exc' = "none"
    /\ _size' = sz
    /\ _count' = (_count + 1) % SizeMod
    /\ _elements' = ConstructAt(elems, sz, _nextPushPos, elem)
    /\ _nextPushPos' = Advance(_nextPushPos, sz)

Push(elem) ==
    /\ Defined
    /\ op' = "push"
    /\ ret' = NoValue
    /\ scn' = ScnNext(CASE elem = 1 -> "push1" [] elem = 2 -> "push2"
                        [] elem = 3 -> "push3" [] OTHER -> "push")
    /\ pops' = 0
    /\ UNCHANGED <<growPolicy, checkPolicy, constructed, resizes, garbage, partialAlloc>>
    /\ IF CheckFull(checkPolicy, _count, _size)
       THEN /\ exc' = "buffer full"
            /\ releasedLive' = 0
            /\ UNCHANGED <<bufVars, misuse, autoGrown>>
       ELSE IF isFull /\ NewSize(growPolicy, _size) # _size
       THEN \E got \in GetTemporaryBuffer(NewSize(growPolicy, _size)) :
            LET newSize == NewSize(growPolicy, _size) IN
            IF got = 0
            THEN /\ BadAlloc(newSize)
                 /\ releasedLive' = 0
                 /\ UNCHANGED <<misuse, autoGrown>>
            ELSE /\ PushStore(Block(Migrate(_elements, _size, _nextPushPos, newSize), got),
                              newSize, elem)
                 /\ _nextPopPos' = MigratedPopPos(_nextPopPos, Offset(newSize, _size))
                 /\ releasedLive' = Live(_elements)
                 /\ autoGrown' = (autoGrown \/ resizes = "none")
                 /\ UNCHANGED misuse
       ELSE /\ PushStore(_elements, _size, elem)
            /\ misuse' = (misuse \/ (checkPolicy = "NoBoundaryCheck" /\ isFull))
            /\ releasedLive' = 0
            /\ UNCHANGED <<_nextPopPos, autoGrown>>
    /\ shape' = IF shape = "push" /\ ~isFull /\ exc' = "none" THEN "push" ELSE "mixed"
    /\ queue' = IF shape' = "push" THEN Append(queue, elem) ELSE <<>>
    /\ rt' = IF isEmpty /\ exc' = "none" THEN elem ELSE NoValue
    /\ firstResizeFrom' = 0
    /\ fifo' = IF resizes # "none" \/ misuse' THEN <<>>
               ELSE IF exc' = "none" THEN Append(fifo, elem)
               ELSE fifo

\* --------------------------------------------------------------------- pop
\* pop(): checkEmpty, --_count, popPos = _nextPopPos, advance(_nextPopPos),
\* copy _elements[popPos], destroy it, return the copy.
Pop ==
    /\ Defined
    /\ op' = "pop"
    /\ scn' = ScnNext("pop")
    /\ rt' = NoValue
    /\ firstResizeFrom' = 0
    /\ releasedLive' = 0
    /\ UNCHANGED <<growPolicy, checkPolicy, constructed, _size, _nextPushPos, resizes,
                   autoGrown, partialAlloc>>
    /\ IF CheckEmpty(checkPolicy, _count)
       THEN /\ exc' = "buffer empty"
            /\ ret' = NoValue
            /\ pops' = 0
            /\ UNCHANGED <<_count, _nextPopPos, _elements, misuse, garbage, fifo>>
            /\ shape' = "mixed"
            /\ queue' = <<>>
       ELSE LET popPos == _nextPopPos
                held == ReadSlot(_elements, _size, popPos)
            IN  /\ exc' = "none"
                /\ _count' = (_count - 1) % SizeMod
                /\ _nextPopPos' = Advance(_nextPopPos, _size)
                /\ ret' \in (IF held = Uninit THEN Values ELSE {held})
                /\ _elements' = DestroyAt(_elements, _size, popPos)
                /\ misuse' = (misuse \/ (checkPolicy = "NoBoundaryCheck" /\ isEmpty))
                /\ garbage' = (garbage \/ held = Uninit)
                /\ shape' = IF shape \in {"push", "pop"} /\ ~isEmpty
                            THEN "pop" ELSE "mixed"
                /\ queue' = IF shape' = "pop" THEN Tail(queue) ELSE <<>>
                /\ pops' = 1
                /\ fifo' = IF resizes # "none" \/ misuse' \/ fifo = <<>> THEN <<>>
                           ELSE Tail(fifo)

\* ------------------------------------------------------------------- clear
\* (variant: the loop runs while count() > 1)
RECURSIVE ClearLoopLeavesOne(_, _)
ClearLoopLeavesOne(st, sz) ==
    IF st.cnt > 1
    THEN ClearLoopLeavesOne([cnt    |-> (st.cnt - 1) % SizeMod,
                             popPos |-> Advance(st.popPos, sz),
                             elems  |-> DestroyAt(st.elems, sz, st.popPos),
                             pops   |-> st.pops + 1], sz)
    ELSE st

\* clear(): for(; count() > 0;) pop();  The state the loop ends in when
\* entered in state st = [cnt, popPos, elems, pops]: _count, _nextPopPos,
\* _elements and the number of pop() calls made; under CheckBoundaryThrow
\* pop's check never fires inside the loop, since the loop runs it with
\* count() > 0 only.
RECURSIVE ClearLoop(_, _)
ClearLoop(st, sz) ==
    IF st.cnt > 0
    THEN ClearLoop([cnt    |-> (st.cnt - 1) % SizeMod,
                    popPos |-> Advance(st.popPos, sz),
                    elems  |-> DestroyAt(st.elems, sz, st.popPos),
                    pops   |-> st.pops + 1], sz)
    ELSE st

\* clear() may be called in any state of a constructed buffer.
Clear ==
    /\ constructed = "yes"
    /\ op' = "clear"
    /\ ret' = NoValue
    /\ exc' = "none"
    /\ LET after == ClearLoop([cnt |-> _count, popPos |-> _nextPopPos,
                               elems |-> _elements, pops |-> 0], _size)
       IN  /\ _count' = after.cnt
           /\ _nextPopPos' = after.popPos
           /\ _elements' = after.elems
           /\ pops' = after.pops
    /\ queue' = <<>>
    /\ shape' = "mixed"
    /\ scn' = -1
    /\ rt' = NoValue
    /\ firstResizeFrom' = 0
    /\ fifo' = <<>>
    /\ releasedLive' = 0
    /\ UNCHANGED <<growPolicy, checkPolicy, constructed, _size, _nextPushPos,
                   misuse, garbage, resizes, autoGrown, partialAlloc>>

\* -------------------------------------------------------------- destructor
\* ~CircularBuffer(): clear(), then return_temporary_buffer(_elements).
Destroy ==
    /\ constructed = "yes"
    /\ constructed' = "destroyed"
    /\ op' = "~CircularBuffer"
    /\ ret' = NoValue
    /\ exc' = "none"
    /\ LET after == ClearLoop([cnt |-> _count, popPos |-> _nextPopPos,
                               elems |-> _elements, pops |-> 0], _size)
       IN  /\ _count' = after.cnt
           /\ _nextPopPos' = after.popPos
           /\ releasedLive' = Live(after.elems)
           /\ pops' = after.pops
    /\ _elements' = [i \in {} |-> Uninit]
    /\ queue' = <<>>
    /\ shape' = "mixed"
    /\ scn' = -1
    /\ rt' = NoValue
    /\ firstResizeFrom' = 0
    /\ fifo' = <<>>
    /\ UNCHANGED <<growPolicy, checkPolicy, _size, _nextPushPos, misuse, garbage,
                   resizes, autoGrown, partialAlloc>>

\* ------------------------------------------------------------ specification
InitBuffer ==
    /\ growPolicy \in GrowPolicies
    /\ checkPolicy \in CheckPolicies
    /\ constructed = "no"
    /\ _size = 0
    /\ _count = 0
    /\ _nextPushPos = 0
    /\ _nextPopPos = 0
    /\ _elements = [i \in {} |-> Uninit]
    /\ op = "none"
    /\ ret = NoValue
    /\ exc = "none"
    /\ queue = <<>>
    /\ misuse = FALSE
    /\ garbage = FALSE
    /\ resizes = "none"
    /\ shape = "push"
    /\ scn = -1
    /\ rt = NoValue
    /\ firstResizeFrom = 0
    /\ pops = 0
    /\ fifo = <<>>
    /\ autoGrown = FALSE
    /\ releasedLive = 0

\* The allocator grants a block of the requested length or none.
Init == InitBuffer /\ partialAlloc = FALSE

Next ==
    \/ \E sz \in 0 .. MaxSize : Construct(sz)
    \/ \E elem \in Values : Push(elem)
    \/ Pop
    \/ Clear
    \/ \E newSize \in 0 .. MaxSize : Resize(newSize)
    \/ Destroy

Spec == Init /\ [][Next]_vars

\* The same buffer over an allocator that may grant fewer slots than asked.
InitPartial == InitBuffer /\ partialAlloc = TRUE

SpecPartial == InitPartial /\ [][Next]_vars

\* ----------------------------------------------- the policies on their own
\* The static policy functions called directly: _size and _count hold the
\* arguments, ret holds what newSize returned, exc what a check threw.
InitPolicy ==
    /\ growPolicy \in GrowPolicies
    /\ checkPolicy \in CheckPolicies
    /\ constructed = "no"
    /\ _size \in 0 .. PtrdiffMax
    /\ _count \in 0 .. PtrdiffMax
    /\ _nextPushPos = 0
    /\ _nextPopPos = 0
    /\ _elements = [i \in {} |-> Uninit]
    /\ op = "none"
    /\ ret = NoValue
    /\ exc = "none"
    /\ queue = <<>>
    /\ misuse = FALSE
    /\ garbage = FALSE
    /\ resizes = "none"
    /\ shape = "push"
    /\ scn = -1
    /\ rt = NoValue
    /\ firstResizeFrom = 0
    /\ pops = 0
    /\ fifo = <<>>
    /\ autoGrown = FALSE
    /\ releasedLive = 0
    /\ partialAlloc = FALSE

\* GrowPolicy::newSize(_size)
CallNewSize ==
    /\ op' = "newSize"
    /\ ret' = NewSize(growPolicy, _size)
    /\ exc' = "none"
    /\ UNCHANGED <<growPolicy, checkPolicy, constructed, bufVars, queue, misuse,
                   garbage, resizes, shape, scn, rt, firstResizeFrom, pops, fifo,
                   autoGrown, releasedLive, partialAlloc>>

\* CheckBoundariesPolicy::checkFull(_count, _size)
CallCheckFull ==
    /\ op' = "checkFull"
    /\ ret' = NoValue
    /\ exc' = IF CheckFull(checkPolicy, _count, _size) THEN "buffer full" ELSE "none"
    /\ UNCHANGED <<growPolicy, checkPolicy, constructed, bufVars, queue, misuse,
                   garbage, resizes, shape, scn, rt, firstResizeFrom, pops, fifo,
                   autoGrown, releasedLive, partialAlloc>>

\* CheckBoundariesPolicy::checkEmpty(_count)
CallCheckEmpty ==
    /\ op' = "checkEmpty"
    /\ ret' = NoValue
    /\ exc' = IF CheckEmpty(checkPolicy, _count) THEN "buffer empty" ELSE "none"
    /\ UNCHANGED <<growPolicy, checkPolicy, constructed, bufVars, queue, misuse,
                   garbage, resizes, shape, scn, rt, firstResizeFrom, pops, fifo,
                   autoGrown, releasedLive, partialAlloc>>

NextPolicy == CallNewSize \/ CallCheckFull \/ CallCheckEmpty

SpecPolicy == InitPolicy /\ [][NextPolicy]_vars

\* ------------------------------------------------------- derived notions
\* The slot contents that n successive pops starting at pos read, in order.
RECURSIVE PopOrder(_, _, _, _)
PopOrder(pos, n, elems, sz) ==
    IF n = 0 THEN <<>>
    ELSE <<ReadSlot(elems, sz, pos)>> \o PopOrder(Advance(pos, sz), n - 1, elems, sz)

\* What popping the whole buffer would return, oldest first.
Contents == PopOrder(_nextPopPos, _count, _elements, _size)

\* ------------------------------------------------------------------ claims

\* C1 -- FIFO order: on a newly constructed buffer, under every policy
\* combination, n <= capacity pushes of v1..vn followed by pops return v1..vn
\* in that order: each pop of such a run returns the oldest value pushed and
\* not yet popped, and the buffer then holds the remaining ones.
FIFOOrder ==
    [][shape' = "pop" =>
          /\ exc' = "none"
          /\ ret' = Head(queue)
          /\ _count' = Len(queue')]_vars

\* Three values pushed into a fresh buffer of capacity 3 and all popped again.
FIFOOrderWitness ==
    /\ shape = "pop"
    /\ _size = 3
    /\ _count = 0
    /\ _nextPushPos = 0
    /\ _nextPopPos = 0
    /\ ret = 2
    /\ growPolicy = "GrowDouble"
    /\ checkPolicy = "NoBoundaryCheck"

\* C2 as stated -- capacity invariant: after any sequence of push, pop, clear
\* and resize, under every policy combination, 0 <= count() <= size().
CapacityInvariant ==
    constructed = "yes" => (0 <= _count /\ _count <= _size)

\* C2 as amended -- 0 <= count() <= size() after any sequence of push, pop,
\* clear and resize(n) with n >= size() in which, under NoBoundaryCheck, no
\* pop is made on an empty buffer and no push on a full buffer that does not
\* grow.
CapacityInvariantDefined ==
    (constructed = "yes" /\ ~misuse /\ resizes # "shrunk")
        => (0 <= _count /\ _count <= _size)

\* A full buffer, after an explicit resize and a push under the unchecked policy.
CapacityInvariantWitness ==
    /\ constructed = "yes"
    /\ ~misuse
    /\ resizes = "grown"
    /\ op = "push"
    /\ exc = "none"
    /\ _count = _size
    /\ _size = 3
    /\ checkPolicy = "NoBoundaryCheck"

\* The call just made was an explicit resize that returned with a larger
\* block, made on a buffer reached by push, pop and clear alone, without
\* unchecked overflow or underflow.
FirstGrowingResize ==
    /\ op' = "resize"
    /\ exc' = "none"
    /\ _size' > _size
    /\ resizes = "none"
    /\ ~misuse

\* C3 -- resize preserves the queue: from every state reached by push, pop and
\* clear without overflow or underflow, resize to a larger capacity leaves the
\* count unchanged and the sequence that popping everything returns unchanged.
ResizePreservesQueue ==
    [][FirstGrowingResize => (_count' = _count /\ Contents' = Contents)]_vars

\* C4 -- resize of a full buffer preserves order: from a full buffer reached
\* by push and pop, with any head position, resize to a larger capacity leaves
\* the count unchanged and the sequence that popping everything returns
\* unchanged.
ResizeFullPreservesOrder ==
    [][(FirstGrowingResize /\ isFull)
          => (_count' = _count /\ Contents' = Contents)]_vars

\* A full buffer of capacity 2 whose head was at 1 (push 1, push 2, pop,
\* push 3), resized to capacity 3: popping returns 2 then 3.
ResizeFullWitness ==
    /\ firstResizeFrom = 2
    /\ _count = 2
    /\ _size = 3
    /\ _nextPushPos = 1
    /\ Contents = <<2, 3>>

\* C5 -- checked overflow: under CheckBoundaryThrow with NoGrow, push on a
\* full buffer throws "buffer full" and leaves count, size, head, tail and
\* every slot unchanged.
CheckedOverflow ==
    [][(op' = "push" /\ checkPolicy = "CheckBoundaryThrow"
            /\ growPolicy = "NoGrow" /\ isFull)
          => (exc' = "buffer full" /\ bufVars' = bufVars)]_vars

\* A push refused on a full NoGrow buffer whose head is not at 0.
CheckedOverflowWitness ==
    /\ op = "push"
    /\ exc = "buffer full"
    /\ checkPolicy = "CheckBoundaryThrow"
    /\ growPolicy = "NoGrow"
    /\ _count = _size
    /\ _size = 3
    /\ _nextPopPos = 2

\* C6 -- checked underflow: under CheckBoundaryThrow with any growth policy,
\* pop on an empty buffer throws "buffer empty", returns nothing and leaves
\* count, size, head, tail and every slot unchanged.
CheckedUnderflow ==
    [][(op' = "pop" /\ checkPolicy = "CheckBoundaryThrow" /\ isEmpty)
          => (exc' = "buffer empty" /\ ret' = NoValue /\ bufVars' = bufVars)]_vars

\* A pop refused on a buffer emptied after its head had moved.
CheckedUnderflowWitness ==
    /\ op = "pop"
    /\ exc = "buffer empty"
    /\ ret = NoValue
    /\ checkPolicy = "CheckBoundaryThrow"
    /\ growPolicy = "GrowSingle"
    /\ _count = 0
    /\ _nextPopPos = 1

\* C7 -- growth trigger with GrowSingle: under GrowSingle with either boundary
\* policy, a push onto a full buffer (whose block can be obtained) succeeds,
\* size() and count() each grow by exactly 1, and the pushed element is popped
\* after all elements held before.
GrowSinglePushOnFull ==
    [][\A elem \in Values :
          (Push(elem) /\ growPolicy = "GrowSingle" /\ isFull
              /\ resizes = "none" /\ exc' # "bad_alloc")
          => /\ exc' = "none"
             /\ _size' = _size + 1
             /\ _count' = _count + 1
             /\ Contents' = Append(Contents, elem)]_vars

\* C8 -- growth with GrowDouble: the policy maps capacity c to 2*c for c >= 1
\* and to 1 for c = 0 (the capacities a block can have, so that 2*c does not
\* wrap).
GrowDoubleMapping ==
    (op = "newSize" /\ growPolicy = "GrowDouble")
        => ret = (IF _size = 0 THEN 1 ELSE 2 * _size)

\* C9 -- the concrete scenario: capacity 2, GrowDouble, CheckBoundaryThrow;
\* after push(1), push(2) the buffer is full; push(3) succeeds, size() is 4,
\* count() is 3 and the buffer is not full; three pops return 1, 2, 3; a
\* fourth pop throws "buffer empty".
ConcreteScenario ==
    /\ scn = 2 => (exc = "none" /\ isFull)
    /\ scn = 3 => (exc = "none" /\ _size = 4 /\ _count = 3 /\ ~isFull)
    /\ scn = 4 => (exc = "none" /\ ret = 1)
    /\ scn = 5 => (exc = "none" /\ ret = 2)
    /\ scn = 6 => (exc = "none" /\ ret = 3)
    /\ scn = 7 => exc = "buffer empty"

\* C10 -- round trip: in every state with an empty buffer of size() >= 1
\* reached by construct, push, pop, clear and resize to a larger capacity,
\* push(x) immediately followed by pop() returns x and leaves the buffer empty.
RoundTrip ==
    [][(op' = "pop" /\ rt \in Values)
          => (exc' = "none" /\ ret' = rt /\ _count' = 0)]_vars

\* C11 -- allocation failure is atomic: a resize that fails to obtain its
\* block throws bad_alloc and leaves size, count, head, tail and every slot
\* unchanged; so does a push on a full buffer whose growth resize fails (the
\* element is not stored and count is not incremented).
AllocationFailureAtomic ==
    [][(op' \in {"resize", "push"} /\ exc' = "bad_alloc")
          => bufVars' = bufVars]_vars

\* A push on a full GrowSingle buffer of capacity 2 holding 3 then 1 behind a
\* head at 1, whose growth to capacity 3 found no block.
AllocationFailureWitness ==
    /\ op = "push"
    /\ exc = "bad_alloc"
    /\ growPolicy = "GrowSingle"
    /\ _size = 2
    /\ _count = 2
    /\ _nextPopPos = 1
    /\ Contents = <<3, 1>>

\* C12 -- zero capacity is legal at construction: construct(0), which is also
\* what the defaulted argument gives, returns without bad_alloc and yields a
\* buffer with size() = 0 and count() = 0.
ZeroCapacityLegal ==
    (op = "construct" /\ _size = 0)
        => (constructed = "yes" /\ exc = "none" /\ _count = 0)

\* C13 as stated -- clear() empties and terminates: from every reachable
\* state, under either boundary policy, clear() throws nothing, makes exactly
\* as many pops as there were elements (count() of them, at most size(), none
\* on an empty buffer), and ends with count() = 0 and size() unchanged.
ClearEmpties ==
    [][op' = "clear"
          => /\ exc' = "none"
             /\ pops' = _count
             /\ pops' <= _size
             /\ _count' = 0
             /\ _size' = _size]_vars

\* C13 as amended -- the same, from every state reached by push, pop, clear
\* and resize(n) with n >= size() in which, under NoBoundaryCheck, no pop was
\* made on an empty buffer and no push on a full buffer that does not grow.
ClearEmptiesDefined ==
    [][(op' = "clear" /\ ~misuse /\ resizes # "shrunk")
          => /\ exc' = "none"
             /\ pops' = _count
             /\ pops' <= _size
             /\ _count' = 0
             /\ _size' = _size]_vars

\* clear() of a full checked buffer of capacity 3 whose head was at 1: three
\* pops, wrapping past the end of the block, leave every slot free.
ClearEmptiesWitness ==
    /\ op = "clear"
    /\ pops = 3
    /\ _size = 3
    /\ _count = 0
    /\ _nextPopPos = 1
    /\ _nextPushPos = 1
    /\ Live(_elements) = 0
    /\ ~misuse
    /\ resizes = "none"
    /\ checkPolicy = "CheckBoundaryThrow"

\* C14 -- element lifecycle is balanced: in any sequence of push, pop, clear
\* and resize followed by the destructor (here: resize to a larger capacity
\* only, and no unchecked overflow or underflow), every block is released with
\* none of its slots still holding a constructed element, and no pop destroys
\* a slot that holds none.
LifecycleBalanced ==
    (~misuse /\ resizes # "shrunk") => (releasedLive = 0 /\ ~garbage)

\* C15 -- live-window invariant: in every state reached by construct, push,
\* pop, clear and resize to a larger capacity, without overflow or underflow,
\* tail = (head + count) mod size(), and head = tail exactly when the buffer
\* is empty or full.
LiveWindow ==
    (constructed = "yes" /\ ~misuse /\ resizes # "shrunk")
        => /\ _nextPushPos = (_nextPopPos + _count) % _size
           /\ (_nextPopPos = _nextPushPos) <=> (_count = 0 \/ _count = _size)

\* C16 -- cursor range: a resize(n) with n >= count(), growing or shrinking,
\* writes only indices in [0, n) of the new block and leaves head and tail in
\* [0, size()).
CursorRange ==
    [][(op' = "resize" /\ exc' = "none" /\ _size' # _size /\ _size' >= _count)
          => /\ MigrationWrites(_size, _nextPushPos, _size') \subseteq 0 .. _size' - 1
             /\ _nextPopPos' \in 0 .. _size' - 1
             /\ _nextPushPos' \in 0 .. _size' - 1]_vars

\* C17 -- slot liveness discipline: in any sequence of push, pop, clear and
\* resize (here: without unchecked overflow or underflow and without a
\* shrinking resize), push constructs only into a free slot, and pop and the
\* migration of resize copy only from slots that hold a constructed element.
SlotLiveness ==
    [][(~misuse' /\ resizes' # "shrunk" /\ exc' = "none")
          => /\ op' = "push" =>
                    ReadSlot(IF _size' = _size THEN _elements
                             ELSE Migrate(_elements, _size, _nextPushPos, _size'),
                             _size', _nextPushPos) = Uninit
             /\ op' = "pop" => ReadSlot(_elements, _size, _nextPopPos) # Uninit
             /\ (op' \in {"push", "resize"} /\ _size' # _size) =>
                    \A i \in MigrationReads(_size, _nextPushPos) :
                        ReadSlot(_elements, _size, i) # Uninit]_vars

\* C18 -- interleaved FIFO across automatic growth: under NoBoundaryCheck with
\* GrowSingle or GrowDouble, in any interleaving of pushes and pops on a buffer
\* of initial capacity >= 1, with no pop on an empty buffer and no explicit
\* resize, every pop returns the oldest value pushed and not yet popped (the
\* i-th pop returns the i-th pushed value), however often push grew the block
\* and wherever head and tail were.
InterleavedFIFO ==
    [][(op' = "pop" /\ exc' = "none" /\ checkPolicy = "NoBoundaryCheck"
            /\ growPolicy \in {"GrowSingle", "GrowDouble"}
            /\ resizes = "none" /\ ~misuse')
          => (fifo # <<>> /\ ret' = Head(fifo) /\ fifo' = Tail(fifo))]_vars

\* push 1, push 2, pop, push 3 on capacity 2 (head and tail at 1), then push 1
\* grows the block to 3 with the head moved to 2; the next pop returns 2 and
\* leaves 3, 1.
InterleavedFIFOWitness ==
    /\ op = "pop"
    /\ ret = 2
    /\ autoGrown
    /\ growPolicy = "GrowSingle"
    /\ checkPolicy = "NoBoundaryCheck"
    /\ resizes = "none"
    /\ ~misuse
    /\ _size = 3
    /\ _nextPopPos = 0
    /\ fifo = <<3, 1>>
    /\ Contents = fifo

\* C19 -- checked buffers never grow by push: under CheckBoundaryThrow with
\* any growth policy, a push on a full buffer throws "buffer full" (so push
\* never reaches the growth policy or resize, and never throws bad_alloc), and
\* size() is unchanged by every push, pop and clear.
CheckedNeverGrows ==
    [][(checkPolicy = "CheckBoundaryThrow" /\ op' \in {"push", "pop", "clear"})
          => /\ _size' = _size
             /\ exc' # "bad_alloc"
             /\ ~autoGrown'
             /\ (op' = "push" /\ isFull)
                    => (exc' = "buffer full" /\ bufVars' = bufVars)]_vars

\* A push refused on a full checked GrowDouble buffer of capacity 1, whose
\* doubled block could have been obtained.
CheckedNeverGrowsWitness ==
    /\ op = "push"
    /\ exc = "buffer full"
    /\ checkPolicy = "CheckBoundaryThrow"
    /\ growPolicy = "GrowDouble"
    /\ _size = 1
    /\ _count = 1
    /\ resizes = "none"
    /\ 2 \in GetTemporaryBuffer(NewSize(growPolicy, _size))

\* C20 -- storage is large enough: over an allocator that may grant any
\* number m of slots with 0 <= m <= n, whenever construct(n) or resize(n)
\* returns without bad_alloc the block holds at least n = size() slots.
StorageLargeEnough ==
    constructed = "yes" => Capacity(_elements) >= _size

====
